---- MODULE Spec2Model ----
(***************************************************************************)
(* A model of mydns: the label trie (globtrie), the exact-name set, the    *)
(* blocklist, the round-robin selector and the DNS query handler.          *)
(*                                                                         *)
(* A string is a sequence of one-character strings, so that case folding,  *)
(* the trailing dot, the characters `*` and `!` and the label length are   *)
(* computed the way the code computes them.                                *)
(***************************************************************************)
EXTENDS Integers, Sequences, FiniteSets, TLC

\* ------------------------------------------------------------------ bounds

\* How many successful Inserts a run of the trie specification makes.
MaxInserts == 3
\* How many Next() calls a run of the selector specification starts.
MaxCalls == 4
\* How many queries a run of the handler specification receives.
MaxQueries == 2

\* --------------------------------------------------- strings (Go, miekg/dns)

\* The longest legal label (IsDomainName refuses labelLen >= 1<<6).
MaxLabelLen == 63
\* IsDomainName's lenmsg: the longest packed name.
LenMsg == 256

Dot == "."

\* strings.ToLower on one character of the model's alphabet (the letters a, b,
\* c, d, x, y in both cases, and `.`, `*`, `!`).
ToLowerChar(ch) ==
    CASE ch = "A" -> "a"
      [] ch = "B" -> "b"
      [] ch = "C" -> "c"
      [] ch = "D" -> "d"
      [] ch = "X" -> "x"
      [] ch = "Y" -> "y"
      [] OTHER -> ch

\* strings.ToLower
ToLower(s) == IF Len(s) = 0 THEN <<>> ELSE [i \in 1..Len(s) |-> ToLowerChar(s[i])]

\* strings.Contains(s, ch) for a one-character ch
StrContains(s, ch) == \E i \in 1..Len(s) : s[i] = ch

\* dns.IsFqdn: the name ends with a dot (the model's alphabet has no backslash)
IsFqdn(s) == Len(s) > 0 /\ s[Len(s)] = Dot

\* dns.Fqdn: the name with a dot appended unless it already ends with one
Fqdn(s) == IF IsFqdn(s) THEN s ELSE Append(s, Dot)

\* dns.CanonicalName: lower case and fully qualified
CanonicalName(s) == ToLower(Fqdn(s))

\* The loop of dns.IsDomainName over Fqdn(s), from index i: begin is the start
\* of the current label (1-based), wasDot whether the previous character was a
\* dot, off the packed length so far.
RECURSIVE IsDomainNameLoop(_, _, _, _, _)
IsDomainNameLoop(s, i, begin, wasDot, off) ==
    IF i > Len(s) THEN TRUE
    ELSE IF s[i] = Dot
         THEN IF wasDot THEN FALSE
              ELSE LET labelLen == i - begin
                   IN  IF labelLen >= MaxLabelLen + 1 THEN FALSE
                       ELSE IF off + 1 + labelLen > LenMsg THEN FALSE
                       ELSE IsDomainNameLoop(s, i + 1, i + 1, TRUE, off + 1 + labelLen)
         ELSE IsDomainNameLoop(s, i + 1, begin, FALSE, off)

\* dns.IsDomainName (its ok result)
IsDomainName(s) ==
    IF Len(s) = 0 THEN FALSE
    ELSE IsDomainNameLoop(Fqdn(s), 1, 1, FALSE, 0)

\* The labels of s[begin..], cut at each dot (s has no trailing dot).
RECURSIVE SplitFrom(_, _, _)
SplitFrom(s, begin, i) ==
    IF i > Len(s) THEN << SubSeq(s, begin, Len(s)) >>
    ELSE IF s[i] = Dot
         THEN << SubSeq(s, begin, i - 1) >> \o SplitFrom(s, i + 1, i + 1)
         ELSE SplitFrom(s, begin, i + 1)

\* dns.SplitDomainName: the labels of the name, left to right, without the
\* root; nil (the empty sequence) for "" and for "."
SplitDomainName(s) ==
    IF Len(s) = 0 \/ s = << Dot >> THEN <<>>
    ELSE IF IsFqdn(s) THEN SplitFrom(SubSeq(s, 1, Len(s) - 1), 1, 1)
    ELSE SplitFrom(s, 1, 1)

\* ------------------------------------------------------------ globtrie

\* The reserved keys of a node.
Bang == << "!" >>
Star == << "*" >>

\* A trie is the set of its nodes, each named by the keys on the way from the
\* root (node = map[string]node): the root is <<>>, and node n has a child
\* under key k exactly when Append(n, k) is a node.
GlobTrieNew == { <<>> }

HasChild(t, n, k) == Append(n, k) \in t

\* labels[len-1], ..., labels[0]: the order Insert and Contains walk in
RECURSIVE Reverse(_)
Reverse(q) == IF Len(q) = 0 THEN <<>> ELSE Append(Reverse(Tail(q)), Head(q))

\* The walk of Insert with n[label] = node{} at every step, whether or not
\* the child exists: what hung below the first label of the path is gone.
InsertPathOverwrite(t, path) ==
    { n \in t : Len(n) = 0 \/ n[1] # path[1] }
    \cup { SubSeq(path, 1, i) : i \in 0..Len(path) }

\* The walk of Insert: every node on the path exists afterwards.
InsertPath(t, path) == t \cup { SubSeq(path, 1, i) : i \in 0..Len(path) }

\* Insert without the check for `!`.
GlobTrieInsertNoBangCheck(t, s0) ==
    LET s == ToLower(s0)
        labels == SplitDomainName(s)
    IN  IF ~IsDomainName(s) THEN [err |-> TRUE, root |-> t]
        ELSE IF Len(labels) < 2 THEN [err |-> TRUE, root |-> t]
        ELSE [err |-> FALSE, root |-> InsertPath(t, Append(Reverse(labels), Bang))]

\* GlobTrie.Insert: the error result and the trie afterwards
GlobTrieInsert(t, s0) ==
    LET s == ToLower(s0)
        labels == SplitDomainName(s)
    IN  IF ~IsDomainName(s) THEN [err |-> TRUE, root |-> t]
        ELSE IF StrContains(s, "!") THEN [err |-> TRUE, root |-> t]
        ELSE IF Len(labels) < 2 THEN [err |-> TRUE, root |-> t]
        ELSE [err |-> FALSE, root |-> InsertPath(t, Append(Reverse(labels), Bang))]

\* prevNode: nil, or a node
NilNode == [some |-> FALSE, node |-> <<>>]
SomeNode(n) == [some |-> TRUE, node |-> n]

\* The loop of Contains over the reversed labels rl from position i, at node
\* currNode with prevNode; its result is the final `!` test.
RECURSIVE ContainsLoop(_, _, _, _, _)
ContainsLoop(t, rl, i, currNode, prevNode) ==
    IF i > Len(rl) THEN HasChild(t, currNode, Bang)
    ELSE LET label == rl[i]
         IN  IF HasChild(t, currNode, label)
             THEN ContainsLoop(t, rl, i + 1, Append(currNode, label), SomeNode(currNode))
             ELSE IF HasChild(t, currNode, Star)
             THEN ContainsLoop(t, rl, i + 1, Append(currNode, Star), NilNode)
             ELSE IF ~prevNode.some THEN FALSE
             ELSE IF ~HasChild(t, prevNode.node, Star) THEN FALSE
             ELSE ContainsLoop(t, rl, i, Append(prevNode.node, Star), NilNode)

\* The loop of Contains without the fallback to the previous node's `*`.
RECURSIVE ContainsLoopNoFallback(_, _, _, _)
ContainsLoopNoFallback(t, rl, i, currNode) ==
    IF i > Len(rl) THEN HasChild(t, currNode, Bang)
    ELSE IF HasChild(t, currNode, rl[i])
         THEN ContainsLoopNoFallback(t, rl, i + 1, Append(currNode, rl[i]))
         ELSE IF HasChild(t, currNode, Star)
         THEN ContainsLoopNoFallback(t, rl, i + 1, Append(currNode, Star))
         ELSE FALSE

\* Contains with that loop.
GlobTrieContainsNoFallback(t, s0) ==
    LET s == ToLower(s0)
        labels == SplitDomainName(s)
    IN  IF ~IsDomainName(s) THEN FALSE
        ELSE IF StrContains(s, "!") \/ StrContains(s, "*") THEN FALSE
        ELSE IF Len(labels) < 2 THEN FALSE
        ELSE ContainsLoopNoFallback(t, Reverse(labels), 1, <<>>)

\* The loop of Contains, returning true when the labels are used up.
RECURSIVE ContainsLoopNoBangTest(_, _, _, _, _)
ContainsLoopNoBangTest(t, rl, i, currNode, prevNode) ==
    IF i > Len(rl) THEN TRUE
    ELSE LET label == rl[i]
         IN  IF HasChild(t, currNode, label)
             THEN ContainsLoopNoBangTest(t, rl, i + 1, Append(currNode, label),
                                         SomeNode(currNode))
             ELSE IF HasChild(t, currNode, Star)
             THEN ContainsLoopNoBangTest(t, rl, i + 1, Append(currNode, Star), NilNode)
             ELSE IF ~prevNode.some THEN FALSE
             ELSE IF ~HasChild(t, prevNode.node, Star) THEN FALSE
             ELSE ContainsLoopNoBangTest(t, rl, i, Append(prevNode.node, Star), NilNode)

\* Contains with that loop.
GlobTrieContainsNoBangTest(t, s0) ==
    LET s == ToLower(s0)
        labels == SplitDomainName(s)
    IN  IF ~IsDomainName(s) THEN FALSE
        ELSE IF StrContains(s, "!") \/ StrContains(s, "*") THEN FALSE
        ELSE IF Len(labels) < 2 THEN FALSE
        ELSE ContainsLoopNoBangTest(t, Reverse(labels), 1, <<>>, NilNode)

\* Contains without the check for `*` and `!` in the name.
GlobTrieContainsNoCharCheck(t, s0) ==
    LET s == ToLower(s0)
        labels == SplitDomainName(s)
    IN  IF ~IsDomainName(s) THEN FALSE
        ELSE IF Len(labels) < 2 THEN FALSE
        ELSE ContainsLoop(t, Reverse(labels), 1, <<>>, NilNode)

\* GlobTrie.Contains
GlobTrieContains(t, s0) ==
    LET s == ToLower(s0)
        labels == SplitDomainName(s)
    IN  IF ~IsDomainName(s) THEN FALSE
        ELSE IF StrContains(s, "!") \/ StrContains(s, "*") THEN FALSE
        ELSE IF Len(labels) < 2 THEN FALSE
        ELSE ContainsLoop(t, Reverse(labels), 1, <<>>, NilNode)

\* Contains that creates the nodes it looks for on its walk.
GlobTrieAfterContainsCreating(t, s0) ==
    LET s == ToLower(s0)
        labels == SplitDomainName(s)
    IN  IF ~IsDomainName(s) THEN t
        ELSE IF StrContains(s, "!") \/ StrContains(s, "*") THEN t
        ELSE IF Len(labels) < 2 THEN t
        ELSE InsertPath(t, Reverse(labels))

\* GlobTrie.Contains: the trie afterwards. Contains only reads: it indexes the
\* maps (currNode[label], currNode["*"], prevNode["*"], currNode["!"]) and
\* assigns to its locals, never to a node.
GlobTrieAfterContains(t, s0) == t

\* ------------------------------------------------------------- inputs

\* Labels the inputs are built from.
La == << "a" >>
Lb == << "b" >>
Lc == << "c" >>
Ld == << "d" >>
Lx == << "x" >>
Ly == << "y" >>
\* A label one character longer than the longest legal one.
LongLabel == [i \in 1..(MaxLabelLen + 1) |-> "a"]

\* The labels joined by dots: the name as the caller writes it.
RECURSIVE JoinLabels(_)
JoinLabels(ls) ==
    IF Len(ls) = 0 THEN <<>>
    ELSE IF Len(ls) = 1 THEN ls[1]
    ELSE ls[1] \o << Dot >> \o JoinLabels(Tail(ls))

\* The same name with the root dot.
JoinDot(ls) == Append(JoinLabels(ls), Dot)

\* Patterns Insert accepts (as label sequences, leftmost label first).
ValidPatternLabels ==
    { << Ld, Lc >>, << Star, Lc >>,
      << La, Ld, Lc >>, << Lb, Ld, Lc >>, << Star, Ld, Lc >>,
      << Lx, La, Ld, Lc >>, << Star, La, Ld, Lc >>,
      << Lx, Star, Ld, Lc >>, << Star, Star, Ld, Lc >> }

\* Patterns Insert refuses: a label of 64 characters, a bare TLD, the root,
\* an empty label, and `!` in two places.
InvalidPatterns ==
    { JoinLabels(<< LongLabel, Ld, Lc >>),
      Lc, << Dot >>, << "a", ".", ".", "c" >>,
      JoinLabels(<< << "!", "a" >>, Ld, Lc >>),
      JoinDot(<< Lx, << "a", "!" >>, Ld, Lc >>) }

\* The pool of the trie specification: each valid pattern without the root
\* dot, some of them with it or in upper case, and the invalid ones.
Patterns ==
    { JoinLabels(ls) : ls \in ValidPatternLabels }
    \cup { JoinDot(<< Star, Ld, Lc >>), << "A", ".", "D", ".", "c" >> }
    \cup InvalidPatterns

\* Labels of the names looked up.
QueryLabels == { La, Lb, Lx, Ly }

\* Concrete names of two to four labels under d.c, and some under other
\* suffixes.
ConcreteNameLabels ==
    { << Ld, Lc >>, << La, Lc >>, << Lc, Ld >> }
    \cup { << l3, Ld, Lc >> : l3 \in QueryLabels }
    \cup { << l4, l3, Ld, Lc >> : l4 \in QueryLabels, l3 \in QueryLabels }
    \cup { << Lx, La, La, Ld, Lc >> }

\* Names Contains refuses whatever the trie holds.
RefusedNames ==
    { JoinLabels(<< Star, Ld, Lc >>), JoinLabels(<< La, Star, Ld, Lc >>),
      JoinLabels(<< << "a", "*" >>, Ld, Lc >>),
      JoinLabels(<< << "!", "a" >>, Ld, Lc >>), JoinLabels(<< La, Bang, Lc >>),
      Lc, JoinDot(<< Ld >>), << Dot >>, <<>>, << "a", ".", ".", "c" >>,
      JoinLabels(<< LongLabel, Ld, Lc >>) }

\* Every name the claims about Contains range over.
AllNames ==
    { JoinLabels(ls) : ls \in ConcreteNameLabels }
    \cup { JoinDot(<< La, Ld, Lc >>), JoinDot(<< Lx, La, Ld, Lc >>),
           << "A", ".", "d", ".", "C" >>, << "Y", ".", "A", ".", "d", ".", "c", "." >> }
    \cup RefusedNames

\* The names the claims compare two tries on.
QueryNames ==
    { JoinLabels(<< Ld, Lc >>), JoinLabels(<< La, Ld, Lc >>),
      JoinDot(<< Ly, Ld, Lc >>), JoinLabels(<< Lx, La, Ld, Lc >>),
      JoinLabels(<< Lb, Ly, Ld, Lc >>), << "Y", ".", "A", ".", "d", ".", "c", "." >>,
      JoinLabels(<< Star, Ld, Lc >>), JoinLabels(<< << "!", "a" >>, Ld, Lc >>),
      Lc }

\* The names the Contains action of the trie specification is called with.
LookupNames == QueryNames \cup { JoinLabels(<< LongLabel, Ld, Lc >>) }

\* The pool of the trie specification.
AllPatterns == [kind |-> "all"]

\* The four patterns of the globtrie test (sub1.example.com, *.example.com,
\* sub2.*.example.com, sub3.sub1.example.com) over labels l1, l2, l3 and the
\* two-label suffix d, as label sequences.
FallbackLabels(l1, l2, l3, d) ==
    { << l1 >> \o d, << Star >> \o d, << l2, Star >> \o d, << l3, l1 >> \o d }

\* The suffixes D of the fallback specification: some share labels with the
\* labels in front of them.
Suffixes == { << Ld, Lc >>, << La, Lb >> }

\* The pools of the fallback specification, one per choice of l1, l2, l3, d.
FallbackPools ==
    { [kind |-> "fallback", l1 |-> l1, l2 |-> l2, l3 |-> l3, d |-> d] :
        l1 \in QueryLabels, l2 \in QueryLabels, l3 \in QueryLabels, d \in Suffixes }

\* The patterns a run with pool p may insert.
PoolOf(p) ==
    IF p.kind = "all" THEN Patterns
    ELSE { JoinDot(ls) : ls \in FallbackLabels(p.l1, p.l2, p.l3, p.d) }

\* How many distinct patterns a run with pool p may insert.
InsertBound(p) == IF p.kind = "all" THEN MaxInserts ELSE Cardinality(PoolOf(p))

\* -------------------------------------------------------------- state

VARIABLES
    root,       \* GlobTrie.root: the trie, as the set of its nodes
    inserted,   \* the label sequences of the patterns Insert has accepted
    pool,       \* which patterns this run may insert (see PoolOf)
    last,       \* the last call on the trie: [op, arg, res]
    made,       \* whether roundrobin.New has returned the selector
    list,       \* RoundRobin.list
    idx,        \* RoundRobin.idx
    mu,         \* RoundRobin.mu: the goroutine holding it, or Unlocked
    pc,         \* where each goroutine is in Next()
    sv,         \* each goroutine's local s in Next()
    returned,   \* the address of each call, in the order the calls advanced the cursor
    calls,      \* how many calls of Next() have started
    phase,      \* main: "startup", "fatal" or "serving"
    exact,      \* Blocklist.exact: the StringSet
    h,          \* each handler goroutine: its query and what it has done
    nq,         \* how many queries have been received
    caller,     \* the caller's slice ss that New was given, as it is now
    shared,     \* whether r.list shares its backing array with the caller's slice
    loadst      \* blocklist.Load: [pc, lines, cnt, err]

trieVars == << root, inserted, pool, last >>

rrVars == << made, list, idx, mu, pc, sv, returned, calls, caller, shared >>

hVars == << phase, exact, h, nq >>

loadVars == << loadst >>

vars ==
    << root, inserted, pool, last, made, list, idx, mu, pc, sv, returned, calls,
       phase, exact, h, nq, caller, shared, loadst >>

\* ---------------------------------------------------------- roundrobin

Unlocked == "unlocked"

\* The goroutines that call Next().
Goroutines == { "g1", "g2", "g3" }

\* The slices New is called with: the empty one, and lists of distinct
\* addresses (main passes IPList.Uniq()).
AddrLists ==
    { <<>>, << "ns1" >>, << "ns1", "ns2" >>, << "ns2", "ns1" >>,
      << "ns1", "ns2", "ns3" >> }

\* The address a caller may write into its own slice after New.
OtherAddr == "ns9"

\* What a caller can do to its slice ss after New has returned: change an
\* element, exchange two neighbours, cut the last element off.
CallerWrites(ss) ==
    { [ss EXCEPT ![i] = OtherAddr] : i \in 1..Len(ss) }
    \cup { [ss EXCEPT ![i] = ss[i + 1], ![i + 1] = ss[i]] : i \in 1..(Len(ss) - 1) }
    \cup { SubSeq(ss, 1, Len(ss) - 1) : i \in 1..Len(ss) }

\* Every value the caller's slice can take.
CallerLists ==
    UNION { [1..n -> { "ns1", "ns2", "ns3", OtherAddr }] : n \in 0..3 }

\* r.list = ss: the selector keeps the caller's slice itself.
NewListNoCopy(ss) == [list |-> ss, shared |-> TRUE]

\* r.list = make([]string, len(ss)); copy(r.list, ss): a slice of its own
\* with the elements of ss.
NewList(ss) == [list |-> ss, shared |-> FALSE]

\* No selector yet.
InitRRState ==
    /\ made = FALSE
    /\ caller = <<>>
    /\ shared = FALSE
    /\ list = <<>>
    /\ idx = 0
    /\ mu = Unlocked
    /\ pc = [g \in Goroutines |-> "idle"]
    /\ sv = [g \in Goroutines |-> ""]
    /\ returned = <<>>
    /\ calls = 0

\* roundrobin.New(ss): the selector holds a copy of ss, whatever its length.
New(ss) ==
    /\ ~made
    /\ made' = TRUE
    /\ list' = NewList(ss).list
    /\ shared' = NewList(ss).shared
    /\ caller' = ss
    /\ idx' = 0
    /\ UNCHANGED << mu, pc, sv, returned, calls, trieVars, hVars, loadVars >>

\* The caller of New writes to its slice afterwards. An element written
\* through a shared backing array is seen through r.list as well; the length
\* of r.list is its own.
CallerWrite(ss) ==
    /\ made
    /\ ss \in CallerWrites(caller)
    /\ caller' = ss
    /\ list' = IF shared
               THEN [k \in 1..Len(list) |-> IF k <= Len(ss) THEN ss[k] ELSE list[k]]
               ELSE list
    /\ UNCHANGED << made, idx, mu, pc, sv, returned, calls, shared, trieVars, hVars,
                    loadVars >>

\* A goroutine calls Next().
NextCall(g) ==
    /\ made
    /\ pc[g] = "idle"
    /\ calls < MaxCalls
    /\ calls' = calls + 1
    /\ pc' = [pc EXCEPT ![g] = "lock"]
    /\ UNCHANGED << made, list, idx, mu, sv, returned, caller, shared, trieVars, hVars, loadVars >>

\* r.mu.Lock() without waiting for the holder.
NextLockNoMutex(g) ==
    /\ pc[g] = "lock"
    /\ mu' = g
    /\ pc' = [pc EXCEPT ![g] = "read"]
    /\ UNCHANGED << made, list, idx, sv, returned, calls, caller, shared, trieVars, hVars, loadVars >>

\* r.mu.Lock(): the goroutine goes on once it holds the mutex.
NextLock(g) ==
    /\ pc[g] = "lock"
    /\ mu = Unlocked
    /\ mu' = g
    /\ pc' = [pc EXCEPT ![g] = "read"]
    /\ UNCHANGED << made, list, idx, sv, returned, calls, caller, shared, trieVars, hVars, loadVars >>

\* s := r.list[r.idx]: the index is out of range when the list is empty, and
\* the goroutine panics; the deferred Unlock runs.
NextRead(g) ==
    /\ pc[g] = "read"
    /\ IF idx < Len(list)
       THEN /\ sv' = [sv EXCEPT ![g] = list[idx + 1]]
            /\ pc' = [pc EXCEPT ![g] = "advance"]
            /\ UNCHANGED mu
       ELSE /\ pc' = [pc EXCEPT ![g] = "panic"]
            /\ mu' = Unlocked
            /\ UNCHANGED sv
    /\ UNCHANGED << made, list, idx, returned, calls, caller, shared, trieVars, hVars, loadVars >>

\* r.idx = r.idx + 1
NextAdvanceNoModulo(g) ==
    /\ pc[g] = "advance"
    /\ idx' = idx + 1
    /\ returned' = Append(returned, sv[g])
    /\ pc' = [pc EXCEPT ![g] = "unlock"]
    /\ UNCHANGED << made, list, mu, sv, calls, caller, shared, trieVars, hVars, loadVars >>

\* r.idx = (r.idx + 1) % len(r.list)
NextAdvance(g) ==
    /\ pc[g] = "advance"
    /\ idx' = (idx + 1) % Len(list)
    /\ returned' = Append(returned, sv[g])
    /\ pc' = [pc EXCEPT ![g] = "unlock"]
    /\ UNCHANGED << made, list, mu, sv, calls, caller, shared, trieVars, hVars, loadVars >>

\* The deferred r.mu.Unlock(), and return s.
NextReturn(g) ==
    /\ pc[g] = "unlock"
    /\ mu' = Unlocked
    /\ pc' = [pc EXCEPT ![g] = "idle"]
    /\ UNCHANGED << made, list, idx, sv, returned, calls, caller, shared, trieVars, hVars, loadVars >>

NextRR ==
    \/ \E ss \in AddrLists : New(ss)
    \/ \E ss \in CallerLists : CallerWrite(ss)
    \/ \E g \in Goroutines : NextCall(g)
    \/ \E g \in Goroutines : NextLock(g)
    \/ \E g \in Goroutines : NextRead(g)
    \/ \E g \in Goroutines : NextAdvance(g)
    \/ \E g \in Goroutines : NextReturn(g)

\* ------------------------------------------------------------ trie state

NoCall == [op |-> "none", arg |-> <<>>, res |-> FALSE]

\* globtrie.New, before any Insert
InitTrieState ==
    /\ root = GlobTrieNew
    /\ inserted = {}
    /\ last = NoCall

\* ------------------------------------------------------- trie actions

\* A call of GlobTrie.Insert(s). The number of distinct accepted patterns is
\* bounded by MaxInserts; a repeated or refused pattern may always be tried.
TrieInsert(p) ==
    LET r == GlobTrieInsert(root, p)
        labels == SplitDomainName(ToLower(p))
    IN  /\ p \in PoolOf(pool)
        /\ r.err \/ labels \in inserted \/ Cardinality(inserted) < InsertBound(pool)
        /\ root' = r.root
        /\ inserted' = IF r.err THEN inserted ELSE inserted \cup { labels }
        /\ last' = [op |-> "insert", arg |-> p, res |-> r.err]
        /\ UNCHANGED << pool, rrVars, hVars, loadVars >>

\* A call of GlobTrie.Contains(s).
TrieContains(n) ==
    /\ last' = [op |-> "contains", arg |-> n, res |-> GlobTrieContains(root, n)]
    /\ root' = GlobTrieAfterContains(root, n)
    /\ UNCHANGED << inserted, pool, rrVars, hVars, loadVars >>

NextTrie ==
    \/ \E p \in PoolOf(pool) : TrieInsert(p)
    \/ \E n \in LookupNames : TrieContains(n)

\* The fallback specification looks up X.D and L2.X.D for every label X.
NextFallback ==
    \/ \E p \in PoolOf(pool) : TrieInsert(p)
    \/ \E x \in QueryLabels : TrieContains(JoinLabels(<< x >> \o pool.d))
    \/ \E x \in QueryLabels : TrieContains(JoinLabels(<< pool.l2, x >> \o pool.d))

\* ------------------------------------------------- stringset, blocklist

\* stringset.New
StringSetNew == {}

\* StringSet.Insert: the set afterwards (the error is always nil)
StringSetInsert(set, str) == set \cup { str }

\* StringSet.Contains
StringSetContains(set, str) == str \in set

\* blocklist.Empty
BlocklistEmpty == [exact |-> StringSetNew, glob |-> GlobTrieNew, cnt |-> 0]

\* bufio.MaxScanTokenSize: the size the Scanner's buffer grows to.
MaxScanTokenSize == 65536

\* Scanner.Scan on a line that does not fit in the buffer with its newline:
\* Scan returns false and Err() is bufio.ErrTooLong.
ScanTooLong(line) == Len(line) >= MaxScanTokenSize

\* The body of the loop of blocklist.Load for the line s.Text() returned.
LoadLine(bl, line) ==
    IF ~IsDomainName(line) THEN bl
    ELSE LET l == CanonicalName(line)
         IN  IF StrContains(l, "*")
             THEN LET r == GlobTrieInsert(bl.glob, l)
                  IN  [bl EXCEPT !.glob = r.root,
                                 !.cnt = IF r.err THEN @ ELSE @ + 1]
             ELSE [bl EXCEPT !.exact = StringSetInsert(@, l), !.cnt = @ + 1]

\* The loop of blocklist.Load over the lines of the source: it ends at the
\* end of the source, or before a line the scanner cannot hold.
RECURSIVE LoadLines(_, _)
LoadLines(bl, lines) ==
    IF Len(lines) = 0 THEN bl
    ELSE IF ScanTooLong(Head(lines)) THEN bl
    ELSE LoadLines(LoadLine(bl, Head(lines)), Tail(lines))

\* blocklist.Load of a source that reads without error: the Blocklist and
\* the count it returns
Load(lines) == LoadLines(BlocklistEmpty, lines)

\* How many lines a run of the load specification reads.
MaxLines == 3

\* A line of MaxScanTokenSize characters.
TooLongLine == [i \in 1..MaxScanTokenSize |-> "a"]

\* The lines of a blocklist source: exact names (one twice, in two
\* spellings), wildcard patterns (one twice, in two spellings), a line that
\* is no domain name, a wildcard line the trie refuses, and a line too long
\* for the scanner.
LinePool ==
    { JoinDot(<< La, Ld, Lc >>), << "A", ".", "d", ".", "C" >>,
      JoinLabels(<< Star, Ld, Lc >>), << "*", ".", "D", ".", "c", "." >>,
      JoinLabels(<< Lx, Star, Ld, Lc >>),
      << "a", ".", ".", "c" >>, << "*", "!", ".", "c" >>,
      TooLongLine }

\* The error Load returns: nil, the reader's error, or bufio.ErrTooLong.
NoErr == "nil"
ReadErr == "read error"
ErrTooLong == "bufio.Scanner: token too long"

\* Load has not been called.
InitLoadState == loadst = [pc |-> "idle", lines |-> <<>>, cnt |-> 0, err |-> NoErr]

\* Load is called: bl := Empty(), cnt = 0, and the scanner is made.
LoadBegin ==
    /\ loadst.pc = "idle"
    /\ loadst' = [loadst EXCEPT !.pc = "scan"]
    /\ exact' = BlocklistEmpty.exact
    /\ root' = BlocklistEmpty.glob
    /\ UNCHANGED << inserted, pool, last, rrVars, phase, h, nq >>

\* s.Scan() returns true with the next line, and the loop body runs.
LoadScan(line) ==
    LET bl == LoadLine([exact |-> exact, glob |-> root, cnt |-> loadst.cnt], line)
    IN  /\ loadst.pc = "scan"
        /\ Len(loadst.lines) < MaxLines
        /\ ~ScanTooLong(line)
        /\ exact' = bl.exact
        /\ root' = bl.glob
        /\ loadst' = [loadst EXCEPT !.lines = Append(@, line), !.cnt = bl.cnt]
        /\ UNCHANGED << inserted, pool, last, rrVars, phase, h, nq >>

\* s.Scan() returns false because the next line does not fit in the
\* scanner's buffer; s.Err() is not nil, and Load returns bl, cnt and the
\* error.
LoadScanTooLong(line) ==
    /\ loadst.pc = "scan"
    /\ ScanTooLong(line)
    /\ loadst' = [loadst EXCEPT !.pc = "returned", !.err = ErrTooLong]
    /\ UNCHANGED << trieVars, rrVars, hVars >>

\* s.Scan() returns false because the reader failed; Load returns bl, cnt and
\* the error.
LoadReadError ==
    /\ loadst.pc = "scan"
    /\ loadst' = [loadst EXCEPT !.pc = "returned", !.err = ReadErr]
    /\ UNCHANGED << trieVars, rrVars, hVars >>

\* s.Scan() returns false at the end of the source; Load returns bl, cnt, nil.
LoadEOF ==
    /\ loadst.pc = "scan"
    /\ loadst' = [loadst EXCEPT !.pc = "returned"]
    /\ UNCHANGED << trieVars, rrVars, hVars >>

NextLoad ==
    \/ LoadBegin
    \/ \E line \in LinePool : LoadScan(line)
    \/ \E line \in LinePool : LoadScanTooLong(line)
    \/ LoadReadError
    \/ LoadEOF

\* Blocklist.Contains on the exact set e and the trie t
BlocklistContains(e, t, fqdn) ==
    StringSetContains(e, fqdn) \/ GlobTrieContains(t, fqdn)

\* StringSet.Contains: the set afterwards (it indexes the map, no more)
StringSetAfterContains(set, str) == set

\* Blocklist.Contains: the exact set and the trie afterwards; the trie is
\* asked only when the exact set does not hold the name.
BlocklistAfterContains(e, t, fqdn) ==
    [exact |-> StringSetAfterContains(e, fqdn),
     glob |-> IF StringSetContains(e, fqdn) THEN t ELSE GlobTrieAfterContains(t, fqdn)]

\* IPList.Uniq: the values in order, first occurrences only
RECURSIVE UniqFrom(_, _)
UniqFrom(values, seen) ==
    IF Len(values) = 0 THEN <<>>
    ELSE IF Head(values) \in seen THEN UniqFrom(Tail(values), seen)
    ELSE << Head(values) >> \o UniqFrom(Tail(values), seen \cup { Head(values) })

Uniq(values) == UniqFrom(values, {})

\* ------------------------------------------------------ dnsqueryhandler

ClassINET == 1
TypeA == 1
TypeAAAA == 28
RcodeSuccess == 0
RcodeServerFailure == 2
RcodeNameError == 3
RcodeRefused == 5

IPv4zero == "0.0.0.0"
IPv6zero == "::"

\* isValidQtype
IsValidQtype(qtype) == qtype = TypeA \/ qtype = TypeAAAA

\* A reply to request r (Msg.SetReply): its id and its first question.
Reply(r, rcode, ans) ==
    [id |-> r.id,
     rcode |-> rcode,
     question |-> IF Len(r.question) > 0 THEN << r.question[1] >> ELSE <<>>,
     answer |-> ans]

\* writeErr: the message written. SetRcode is called with RcodeNameError,
\* whatever code is.
WriteErr(r, code) == Reply(r, RcodeNameError, <<>>)

\* writeAnswer: the message written
WriteAnswer(r, ans) == Reply(r, RcodeSuccess, ans)

\* generateBlockedAnswer(fqdn, qclass, qtype)
GenerateBlockedAnswer(fqdn, qclass, qtype) ==
    LET hdr == [name |-> fqdn, rrtype |-> qtype, class |-> qclass]
    IN  IF qtype = TypeA THEN [hdr |-> hdr, rr |-> "A", addr |-> IPv4zero]
        ELSE IF qtype = TypeAAAA THEN [hdr |-> hdr, rr |-> "AAAA", addr |-> IPv6zero]
        ELSE [hdr |-> hdr, rr |-> "A", addr |-> IPv4zero]

\* The refusals without the check of the question's type.
RefusalNoTypeCheck(r, idFail) ==
    IF idFail THEN << WriteErr(r, RcodeServerFailure) >>
    ELSE IF Len(r.question) < 1 THEN << WriteErr(r, RcodeRefused) >>
    ELSE IF r.question[1].qclass # ClassINET THEN << WriteErr(r, RcodeRefused) >>
    ELSE <<>>

\* HandleAandAAAA up to the blocklist check: the messages written by the
\* refusals (none when the query goes on). idFail: generateRequestID failed.
Refusal(r, idFail) ==
    IF idFail THEN << WriteErr(r, RcodeServerFailure) >>
    ELSE IF Len(r.question) < 1 THEN << WriteErr(r, RcodeRefused) >>
    ELSE IF r.question[1].qclass # ClassINET THEN << WriteErr(r, RcodeRefused) >>
    ELSE IF ~IsValidQtype(r.question[1].qtype) THEN << WriteErr(r, RcodeRefused) >>
    ELSE <<>>

\* HandleAandAAAA for a blocked name: the message written. The call passes
\* q.Qtype for the parameter qclass and q.Qclass for the parameter qtype.
BlockedResponse(r) ==
    LET q == r.question[1]
    IN  << WriteAnswer(r, << GenerateBlockedAnswer(Fqdn(q.name), q.qtype, q.qclass) >>) >>

\* The upstream query HandleAandAAAA builds.
UpstreamQuery(r, id) ==
    [id |-> id, rd |-> r.rd,
     question |-> << [name |-> Fqdn(r.question[1].name),
                      qtype |-> r.question[1].qtype,
                      qclass |-> r.question[1].qclass] >>]

\* HandleAandAAAA after Exchange has returned, with a mismatch branch that
\* does not return.
AfterExchangeNoReturn(r, uquery, res) ==
    IF res.err THEN << WriteErr(r, RcodeServerFailure) >>
    ELSE (IF uquery.id # res.id THEN << WriteErr(r, RcodeServerFailure) >> ELSE <<>>)
         \o (IF Len(res.answer) < 1 THEN << WriteErr(r, RcodeNameError) >>
             ELSE << WriteAnswer(r, res.answer) >>)

\* HandleAandAAAA after Exchange has returned, relaying the first upstream
\* record only.
AfterExchangeFirstAnswer(r, uquery, res) ==
    IF res.err THEN << WriteErr(r, RcodeServerFailure) >>
    ELSE IF uquery.id # res.id THEN << WriteErr(r, RcodeServerFailure) >>
    ELSE IF Len(res.answer) < 1 THEN << WriteErr(r, RcodeNameError) >>
    ELSE << WriteAnswer(r, << res.answer[1] >>) >>

\* HandleAandAAAA after Exchange has returned, answering an empty answer
\* section with the upstream message's response code.
AfterExchangeUpstreamRcode(r, uquery, res) ==
    IF res.err THEN << WriteErr(r, RcodeServerFailure) >>
    ELSE IF uquery.id # res.id THEN << WriteErr(r, RcodeServerFailure) >>
    ELSE IF Len(res.answer) < 1 THEN << Reply(r, res.rcode, <<>>) >>
    ELSE << WriteAnswer(r, res.answer) >>

\* HandleAandAAAA after Exchange has returned res for uquery: the messages
\* written.
AfterExchange(r, uquery, res) ==
    IF res.err THEN << WriteErr(r, RcodeServerFailure) >>
    ELSE IF uquery.id # res.id THEN << WriteErr(r, RcodeServerFailure) >>
    ELSE IF Len(res.answer) < 1 THEN << WriteErr(r, RcodeNameError) >>
    ELSE << WriteAnswer(r, res.answer) >>

\* ------------------------------------------------------ handler inputs

\* The handler goroutines the server runs at once.
Handlers == { "h1", "h2" }

\* The -nameservers values main starts with: none, and two with one repeated.
NoNameservers == <<>>
TwoNameservers == << "1.1.1.1", "1.0.0.1", "1.1.1.1" >>

\* The blocklist file: exact names (one in mixed case), wildcard patterns, a
\* line that is no domain name, and a wildcard line the trie refuses.
BlocklistFile ==
    << JoinDot(<< La, Ld, Lc >>), JoinLabels(<< Star, Ld, Lc >>),
       << "a", ".", ".", "c" >>, << "B", ".", "c" >>,
       JoinLabels(<< Lx, Star, Ld, Lc >>), << "*", "!", ".", "c" >>,
       JoinLabels(<< Star, Ly, Lb, Ld, Lc >>) >>

\* The command lines main is started with: no nameserver; two nameservers
\* and the blocklist file; two nameservers over TLS and no blocklist.
CommandLines ==
    { [values |-> NoNameservers, tls |-> FALSE, lines |-> BlocklistFile],
      [values |-> TwoNameservers, tls |-> FALSE, lines |-> BlocklistFile],
      [values |-> TwoNameservers, tls |-> TRUE, lines |-> <<>>] }

\* Question names: blocked exactly, blocked by a wildcard, an exact name in
\* another case, and a name not blocked.
QuestionNames ==
    { JoinLabels(<< La, Ld, Lc >>), JoinDot(<< Ly, Ld, Lc >>),
      << "b", ".", "C" >>, JoinDot(<< Ld, Lc >>) }

Question(name, qtype, qclass) == [name |-> name, qtype |-> qtype, qclass |-> qclass]

\* The queries received: A and AAAA questions of class INET, an A question
\* for a name the trie finds by the `*` of the previous node, a question of
\* class CHAOS, an MX question, two questions, and none.
Requests ==
    { [id |-> 7, rd |-> TRUE, question |-> << Question(n, t, ClassINET) >>] :
        n \in QuestionNames, t \in { TypeA, TypeAAAA } }
    \cup { [id |-> 7, rd |-> TRUE,
            question |-> << Question(JoinLabels(<< Lx, Lb, Ld, Lc >>), TypeA, ClassINET) >>] }
    \cup { [id |-> 8, rd |-> FALSE, question |-> qs] :
            qs \in { <<>>,
                     << Question(JoinLabels(<< La, Ld, Lc >>), TypeA, 3) >>,
                     << Question(JoinLabels(<< La, Ld, Lc >>), 15, ClassINET) >>,
                     << Question(JoinDot(<< Ld, Lc >>), TypeAAAA, ClassINET),
                        Question(JoinLabels(<< La, Ld, Lc >>), TypeA, ClassINET) >> } }

\* Identifiers dns.Id() draws for the upstream query, and upstreams answer with.
UpstreamIds == { 11, 12 }

\* Records an upstream answers with.
UpstreamRR(fqdn, rr, addr) ==
    [hdr |-> [name |-> fqdn, rrtype |-> IF rr = "A" THEN TypeA ELSE TypeAAAA,
              class |-> ClassINET],
     rr |-> rr, addr |-> addr]

\* What Exchange returns for the query uquery: an error; a message with
\* either identifier and no or one answer; a message with the query's
\* identifier and two answers, or with no answer and an error code.
ExchangeResults(uquery) ==
    LET fqdn == uquery.question[1].name
        r1 == UpstreamRR(fqdn, "A", "93.184.216.34")
        r2 == UpstreamRR(fqdn, "AAAA", "2606:2800::1")
    IN  { [err |-> TRUE, id |-> 0, rcode |-> RcodeSuccess, answer |-> <<>>] }
        \cup { [err |-> FALSE, id |-> i, rcode |-> rc, answer |-> ans] :
                i \in UpstreamIds,
                rc \in { RcodeSuccess },
                ans \in { <<>>, << r1 >> } }
        \cup { [err |-> FALSE, id |-> uquery.id, rcode |-> RcodeSuccess,
                answer |-> << r2, r1 >>] }
        \cup { [err |-> FALSE, id |-> uquery.id, rcode |-> rc, answer |-> <<>>] :
                rc \in { RcodeNameError, RcodeServerFailure } }

\* ------------------------------------------------------ handler actions

NoMsg == [id |-> 0, rd |-> FALSE, question |-> <<>>]
NoResult == [err |-> FALSE, id |-> 0, rcode |-> RcodeSuccess, answer |-> <<>>]

\* A handler goroutine with no query.
Idle ==
    [pc |-> "idle", r |-> NoMsg, idFail |-> FALSE, nameserver |-> <<>>,
     uquery |-> NoMsg, ures |-> NoResult, out |-> <<>>, nNext |-> 0,
     nExchange |-> 0]

\* Before main has run.
InitHState ==
    /\ phase = "startup"
    /\ exact = StringSetNew
    /\ h = [i \in Handlers |-> Idle]
    /\ nq = 0

\* main: the nameservers are Uniq()ed, an empty list is fatal, each gets the
\* upstream port, the selector and the blocklist are built, and the handler
\* is registered.
Startup(values, tls, lines) ==
    LET uniq == Uniq(values)
        upstreamPort == IF tls THEN ":853" ELSE ":53"
        bl == Load(lines)
    IN  /\ phase = "startup"
        /\ IF Len(uniq) < 1
           THEN /\ phase' = "fatal"
                /\ UNCHANGED << made, list, idx, exact, root, caller, shared >>
           ELSE /\ phase' = "serving"
                /\ made' = TRUE
                /\ caller' = [k \in 1..Len(uniq) |-> << uniq[k], upstreamPort >>]
                /\ list' = NewList(caller').list
                /\ shared' = NewList(caller').shared
                /\ idx' = 0
                /\ exact' = bl.exact
                /\ root' = bl.glob
        /\ UNCHANGED << inserted, pool, last, mu, pc, sv, returned, calls, h, nq,
                        loadVars >>

\* HandleAandAAAA for a query it refuses: one writeErr, and return.
HandleRefuse(i, r, idFail) ==
    /\ phase = "serving"
    /\ h[i].pc = "idle"
    /\ nq < MaxQueries
    /\ Refusal(r, idFail) # <<>>
    /\ nq' = nq + 1
    /\ h' = [h EXCEPT ![i] = [Idle EXCEPT !.pc = "done", !.r = r,
                                          !.idFail = idFail,
                                          !.out = Refusal(r, idFail)]]
    /\ UNCHANGED << trieVars, rrVars, loadVars, phase, exact >>

\* HandleAandAAAA for a query whose name the blocklist contains.
HandleBlock(i, r) ==
    /\ phase = "serving"
    /\ h[i].pc = "idle"
    /\ nq < MaxQueries
    /\ Refusal(r, FALSE) = <<>>
    /\ BlocklistContains(exact, root, Fqdn(r.question[1].name))
    /\ nq' = nq + 1
    /\ h' = [h EXCEPT ![i] = [Idle EXCEPT !.pc = "done", !.r = r,
                                          !.out = BlockedResponse(r)]]
    /\ exact' = BlocklistAfterContains(exact, root, Fqdn(r.question[1].name)).exact
    /\ root' = BlocklistAfterContains(exact, root, Fqdn(r.question[1].name)).glob
    /\ UNCHANGED << inserted, pool, last, rrVars, loadVars, phase >>

\* HandleAandAAAA for any other query, up to the call of Exchange:
\* nameservers.Next() (the read and the advance, under the selector's mutex)
\* and the upstream query with a fresh identifier.
HandleForward(i, r, id) ==
    /\ phase = "serving"
    /\ h[i].pc = "idle"
    /\ nq < MaxQueries
    /\ Refusal(r, FALSE) = <<>>
    /\ ~BlocklistContains(exact, root, Fqdn(r.question[1].name))
    /\ nq' = nq + 1
    /\ idx' = (idx + 1) % Len(list)
    /\ h' = [h EXCEPT ![i] = [Idle EXCEPT !.pc = "exchange", !.r = r,
                                          !.nameserver = list[idx + 1],
                                          !.uquery = UpstreamQuery(r, id),
                                          !.nNext = 1, !.nExchange = 1]]
    /\ exact' = BlocklistAfterContains(exact, root, Fqdn(r.question[1].name)).exact
    /\ root' = BlocklistAfterContains(exact, root, Fqdn(r.question[1].name)).glob
    /\ UNCHANGED << inserted, pool, last, made, list, mu, pc, sv, returned, calls,
                    caller, shared, loadVars, phase >>

\* Exchange returns, and HandleAandAAAA answers the client.
ExchangeReturn(i) ==
    /\ h[i].pc = "exchange"
    /\ \E res \in ExchangeResults(h[i].uquery) :
          h' = [h EXCEPT ![i].pc = "done", ![i].ures = res,
                         ![i].out = AfterExchange(h[i].r, h[i].uquery, res)]
    /\ UNCHANGED << trieVars, rrVars, loadVars, phase, exact, nq >>

\* HandleAandAAAA has returned; the goroutine takes the next query.
HandlerEnd(i) ==
    /\ h[i].pc = "done"
    /\ h' = [h EXCEPT ![i] = Idle]
    /\ UNCHANGED << trieVars, rrVars, loadVars, phase, exact, nq >>

NextHandler ==
    \/ \E c \in CommandLines : Startup(c.values, c.tls, c.lines)
    \/ \E i \in Handlers, r \in Requests, idFail \in BOOLEAN : HandleRefuse(i, r, idFail)
    \/ \E i \in Handlers, r \in Requests : HandleBlock(i, r)
    \/ \E i \in Handlers, r \in Requests, id \in UpstreamIds : HandleForward(i, r, id)
    \/ \E i \in Handlers : ExchangeReturn(i)
    \/ \E i \in Handlers : HandlerEnd(i)

\* ------------------------------------------------------ specifications

\* The trie package: any Inserts and Contains in any order.
InitTrie ==
    /\ InitTrieState
    /\ pool = AllPatterns
    /\ InitRRState
    /\ InitHState
    /\ InitLoadState

SpecTrie == InitTrie /\ [][NextTrie]_vars

\* The trie of the globtrie test, for any distinct labels and any suffix.
InitFallback ==
    /\ InitTrieState
    /\ pool \in { p \in FallbackPools : p.l1 # p.l2 /\ p.l1 # p.l3 /\ p.l2 # p.l3 }
    /\ InitRRState
    /\ InitHState
    /\ InitLoadState

SpecFallback == InitFallback /\ [][NextFallback]_vars

\* The selector package: New, then goroutines calling Next() concurrently.
SpecRR == InitTrie /\ [][NextRR]_vars

\* The server: main, then handler goroutines answering queries.
SpecHandler == InitTrie /\ [][NextHandler]_vars

\* blocklist.Load of any source of up to MaxLines lines.
SpecLoad == InitTrie /\ [][NextLoad]_vars

\* ------------------------------------------------------- trie claims

\* The labels of a name as its reader sees them: lower case, no root.
NameLabels(s) == SplitDomainName(ToLower(s))

\* A legal domain name: not empty, every label of 1 to 63 characters.
LegalName(s) ==
    /\ Len(s) > 0
    /\ \A i \in 1..Len(NameLabels(s)) :
          Len(NameLabels(s)[i]) >= 1 /\ Len(NameLabels(s)[i]) <= MaxLabelLen

\* A valid concrete name: legal, at least two labels, no `*` and no `!`.
ConcreteName(s) ==
    /\ LegalName(s)
    /\ Len(NameLabels(s)) >= 2
    /\ ~StrContains(s, "*")
    /\ ~StrContains(s, "!")

\* Pattern pl matches the labels nl: as many labels, each equal or `*`.
PatternMatches(pl, nl) ==
    /\ Len(pl) = Len(nl)
    /\ \A i \in 1..Len(pl) : pl[i] = nl[i] \/ pl[i] = Star

\* C5: matching is complete: Contains is true for every valid concrete name
\* that some inserted pattern matches.
C5_MatchingComplete ==
    \A s \in AllNames :
        (ConcreteName(s) /\ \E pl \in inserted : PatternMatches(pl, NameLabels(s)))
            => GlobTrieContains(root, s)

\* The trie holds exactly the four patterns of its pool.
HoldsTestPatterns ==
    /\ pool.kind = "fallback"
    /\ inserted = FallbackLabels(pool.l1, pool.l2, pool.l3, pool.d)

\* Every label a looked-up name may carry at the wildcard position.
AnyLabel == QueryLabels \cup { Lc, Ld }

\* C7: in the trie holding exactly L1.D, *.D, L2.*.D and L3.L1.D, X.D and
\* L2.X.D are contained for every label X, X = L1 included.
C7_PreviousNodeFallback ==
    HoldsTestPatterns =>
        \A x \in AnyLabel :
            /\ GlobTrieContains(root, JoinLabels(<< x >> \o pool.d))
            /\ GlobTrieContains(root, JoinDot(<< x >> \o pool.d))
            /\ GlobTrieContains(root, JoinLabels(<< pool.l2, x >> \o pool.d))
            /\ GlobTrieContains(root, JoinDot(<< pool.l2, x >> \o pool.d))

\* The lookup of L2.L1.D, which takes the fallback, has answered true.
C7_Witness ==
    /\ HoldsTestPatterns
    /\ last.op = "contains"
    /\ last.arg = JoinLabels(<< pool.l2, pool.l1 >> \o pool.d)
    /\ last.res

\* A label of the raw pattern is longer than 63 characters.
HasLongLabel(s) ==
    \E i \in 1..Len(SplitDomainName(s)) : Len(SplitDomainName(s)[i]) > MaxLabelLen

\* The patterns C10 is about.
MustBeRejected(s) ==
    \/ HasLongLabel(s)
    \/ Len(SplitDomainName(s)) < 2
    \/ StrContains(s, "!")

\* C10: Insert of a pattern with a label longer than 63 characters, with
\* fewer than two labels or with `!` returns an error and leaves the trie as
\* it was: Contains answers the same for every name before and after.
C10_RejectedInsertKeepsTrie ==
    [][ (last'.op = "insert" /\ MustBeRejected(last'.arg)) =>
            /\ last'.res
            /\ root' = root
            /\ inserted' = inserted
            /\ \A n \in QueryNames :
                  GlobTrieContains(root', n) = GlobTrieContains(root, n) ]_vars

\* A pattern C10 is about was refused by a trie that holds patterns.
C10_Witness ==
    /\ last.op = "insert"
    /\ MustBeRejected(last.arg)
    /\ last.res
    /\ Cardinality(inserted) >= 2

\* The names C14 is about: with `*` or `!`, with fewer than two labels, or
\* not a legal domain name.
MustBeRefused(s) ==
    \/ StrContains(s, "*")
    \/ StrContains(s, "!")
    \/ Len(NameLabels(s)) < 2
    \/ ~LegalName(s)

\* Every name of RefusedNames is one C14 is about.
RefusedNamesAreRefused == \A n \in RefusedNames : MustBeRefused(n)

\* The other names: concrete names, in several spellings.
MatchableNames == AllNames \ RefusedNames

\* C14: whatever the trie holds, Contains returns false (and nothing else:
\* it has no error result) for every name with `*` or `!`, with fewer than
\* two labels, or that is no legal domain name.
C14_RefusedNamesNotContained ==
    /\ RefusedNamesAreRefused
    /\ \A n \in RefusedNames : GlobTrieContains(root, n) = FALSE
    /\ last.op = "contains" /\ MustBeRefused(last.arg) => last.res = FALSE

\* Contains was called with `*.d.c` on a trie that holds the pattern `*.d.c`
\* and others, and answered false.
C14_Witness ==
    /\ << Star, Ld, Lc >> \in inserted
    /\ Cardinality(inserted) >= 2
    /\ last.op = "contains"
    /\ last.arg = JoinLabels(<< Star, Ld, Lc >>)
    /\ ~last.res

\* C16: matching is sound: Contains is true only for a name that some
\* inserted pattern matches, label by label and with as many labels; with
\* only `*.D` inserted, D and X.Y.D are not contained.
C16_MatchingSound ==
    /\ \A s \in MatchableNames :
          GlobTrieContains(root, s) =>
              \E pl \in inserted : PatternMatches(pl, NameLabels(s))
    /\ inserted = { << Star, Ld, Lc >> } =>
          /\ ~GlobTrieContains(root, JoinLabels(<< Ld, Lc >>))
          /\ \A x \in QueryLabels, y \in QueryLabels :
                ~GlobTrieContains(root, JoinLabels(<< x, y, Ld, Lc >>))
    /\ last.op = "contains" /\ last.res =>
          \E pl \in inserted : PatternMatches(pl, NameLabels(last.arg))

\* With `*.d.c`, `x.*.d.c` and `x.a.d.c` inserted, the lookup of `b.y.d.c`
\* answered false: `*` is not more than one label and the `*` of the previous
\* node is not taken without a pattern.
C16_Witness ==
    /\ inserted = { << Star, Ld, Lc >>, << Lx, Star, Ld, Lc >>, << Lx, La, Ld, Lc >> }
    /\ last.op = "contains"
    /\ last.arg = JoinLabels(<< Lb, Ly, Ld, Lc >>)
    /\ ~last.res

\* --------------------------------------------------- selector claims

\* C1: for a selector built from a non-empty list of n addresses, the k-th
\* call to complete its read-and-advance (k from 0) returns list[k mod n],
\* under any interleaving of the callers; so every window of n consecutive
\* calls returns each address exactly once.
C1_CyclicOrder ==
    (made /\ Len(list) >= 1) =>
        /\ \A k \in 1..Len(returned) :
              returned[k] = list[((k - 1) % Len(list)) + 1]
        /\ \A k \in 1..Len(returned) :
              k + Len(list) - 1 <= Len(returned) =>
                  \A a \in { list[i] : i \in 1..Len(list) } :
                      Cardinality({ j \in k..(k + Len(list) - 1) : returned[j] = a }) = 1

\* The cursor has wrapped around a list of two addresses while one goroutine
\* still holds the mutex and another waits for it.
C1_Witness ==
    /\ made
    /\ Len(list) = 2
    /\ Len(returned) = 3
    /\ \E g1 \in Goroutines, g2 \in Goroutines :
          g1 # g2 /\ pc[g1] = "unlock" /\ mu = g1 /\ pc[g2] = "lock"

\* C9: New refuses an empty address sequence, so no selector with an empty
\* list exists and no call of Next() indexes an empty list.
C9_EmptyListRejected ==
    /\ made => Len(list) >= 1
    /\ \A g \in Goroutines : pc[g] # "panic"

\* Goroutine g is between Lock and Unlock in Next().
InNext(g) == pc[g] \in { "read", "advance", "unlock" }

\* C17: for a selector built from a non-empty list, 0 <= idx < len(list) in
\* every state, however the calls of Next() interleave, and the read of the
\* address and the advance of the cursor are one step for every other
\* caller: only the holder of the mutex is between Lock and Unlock, and the
\* address it has read is the one at the cursor until it advances.
C17_CursorInBounds ==
    (made /\ Len(list) >= 1) =>
        /\ idx >= 0
        /\ idx < Len(list)
        /\ \A g1 \in Goroutines, g2 \in Goroutines :
              (InNext(g1) /\ InNext(g2)) => g1 = g2
        /\ \A g \in Goroutines : InNext(g) => mu = g
        /\ \A g \in Goroutines : pc[g] = "advance" => sv[g] = list[idx + 1]

\* The cursor is at the last of two addresses; one goroutine has read it
\* and not yet advanced, and the two others wait for the mutex.
C17_Witness ==
    /\ made
    /\ Len(list) = 2
    /\ idx = 1
    /\ \E g \in Goroutines :
          /\ pc[g] = "advance"
          /\ \A g2 \in Goroutines \ { g } : pc[g2] = "lock"

\* A step of the selector's life: New gives it the caller's addresses, and
\* no later step (a write of the caller to its slice, a call of Next())
\* changes them.
SequenceSteps ==
    /\ (~made /\ made') => list' = caller'
    /\ made => list' = list

\* C20: the selector's addresses are fixed at construction: what the caller
\* does to its slice after New (change, reorder, cut) and Next() itself leave
\* the list as it was, and the addresses returned follow it.
C20_SequenceFixed ==
    /\ [][SequenceSteps]_vars
    /\ []((made /\ Len(list) >= 1) =>
             \A k \in 1..Len(returned) : returned[k] = list[((k - 1) % Len(list)) + 1])

\* The caller has changed and cut its slice after New, and Next() has still
\* returned the two addresses it was built with, in order, and the first
\* again.
C20_Witness ==
    /\ made
    /\ list = << "ns2", "ns1" >>
    /\ caller = << OtherAddr >>
    /\ returned = << "ns2", "ns1", "ns2" >>

\* ---------------------------------------------------- handler claims

\* Handler i has returned from HandleAandAAAA.
Done(i) == h[i].pc = "done"

\* The query of handler i passes validation: its request ID was generated,
\* it has a question, of class INET and type A or AAAA.
PassesValidation(i) ==
    /\ ~h[i].idFail
    /\ Len(h[i].r.question) >= 1
    /\ h[i].r.question[1].qclass = ClassINET
    /\ h[i].r.question[1].qtype \in { TypeA, TypeAAAA }

\* The message handler i wrote is the blocked answer for its question: one
\* record for the queried name, A 0.0.0.0 for type A, AAAA :: for type AAAA.
IsBlockedAnswer(i) ==
    LET q == h[i].r.question[1]
        m == h[i].out[1]
    IN  /\ Len(h[i].out) = 1
        /\ Len(m.answer) = 1
        /\ m.answer[1].hdr.name = Fqdn(q.name)
        /\ q.qtype = TypeA =>
              /\ m.answer[1].rr = "A"
              /\ m.answer[1].hdr.rrtype = TypeA
              /\ m.answer[1].addr = IPv4zero
        /\ q.qtype = TypeAAAA =>
              /\ m.answer[1].rr = "AAAA"
              /\ m.answer[1].hdr.rrtype = TypeAAAA
              /\ m.answer[1].addr = IPv6zero

\* C2: a query that passes validation and whose name is in the blocklist is
\* answered with exactly one record for the queried name, of the family of
\* the question: A 0.0.0.0 for type A, AAAA :: for type AAAA.
C2_BlockedAnswerMatchesType ==
    \A i \in Handlers :
        (/\ Done(i)
         /\ PassesValidation(i)
         /\ BlocklistContains(exact, root, Fqdn(h[i].r.question[1].name)))
            => IsBlockedAnswer(i)

\* C3: a query with no question, with a class other than INET or with a type
\* other than A and AAAA is answered with the response code REFUSED.
C3_RefusedCode ==
    \A i \in Handlers :
        (/\ Done(i)
         /\ ~h[i].idFail
         /\ \/ Len(h[i].r.question) = 0
            \/ h[i].r.question[1].qclass # ClassINET
            \/ h[i].r.question[1].qtype \notin { TypeA, TypeAAAA })
            => /\ Len(h[i].out) = 1
               /\ h[i].out[1].rcode = RcodeRefused

\* C4: when the exchange of a forwarded query returns an error, or a message
\* whose identifier is not the upstream query's, the client gets the response
\* code SERVER FAILURE, which is not NAME ERROR.
C4_ServerFailureCode ==
    \A i \in Handlers :
        (/\ Done(i)
         /\ h[i].nExchange = 1
         /\ h[i].ures.err \/ h[i].ures.id # h[i].uquery.id)
            => /\ Len(h[i].out) = 1
               /\ h[i].out[1].rcode = RcodeServerFailure
               /\ h[i].out[1].rcode # RcodeNameError

\* strings.ToUpper on one character of the model's alphabet.
ToUpperChar(ch) ==
    CASE ch = "a" -> "A"
      [] ch = "b" -> "B"
      [] ch = "c" -> "C"
      [] ch = "d" -> "D"
      [] ch = "x" -> "X"
      [] ch = "y" -> "Y"
      [] OTHER -> ch

\* The spellings of name n that differ only in letter case or in the root dot.
Spellings(n) ==
    LET bare == IF IsFqdn(n) THEN SubSeq(n, 1, Len(n) - 1) ELSE n
        upper == [k \in 1..Len(bare) |-> ToUpperChar(bare[k])]
        first == [k \in 1..Len(bare) |-> IF k = 1 THEN ToUpperChar(bare[k]) ELSE bare[k]]
    IN  { bare, Append(bare, Dot), upper, Append(upper, Dot), first, Append(first, Dot) }

\* C6: blocklist membership does not depend on letter case or on the root
\* dot: every spelling of a loaded exact name is contained, and a query for
\* such a spelling gets the blocked answer.
C6_CaseAndDotInsensitive ==
    /\ \A i \in Handlers :
          (/\ Done(i)
           /\ PassesValidation(i)
           /\ CanonicalName(h[i].r.question[1].name) \in exact)
              => /\ h[i].nExchange = 0
                 /\ Len(h[i].out) = 1
                 /\ Len(h[i].out[1].answer) = 1
                 /\ h[i].out[1].answer[1].addr \in { IPv4zero, IPv6zero }
    /\ phase = "serving" =>
          \A n \in exact : \A m \in Spellings(n) : BlocklistContains(exact, root, m)

\* C8: every query is answered exactly once: a handler that has returned has
\* written exactly one message, and one that has not has written none yet.
C8_ExactlyOneResponse ==
    \A i \in Handlers :
        /\ Done(i) => Len(h[i].out) = 1
        /\ ~Done(i) => Len(h[i].out) = 0

\* Both handlers have returned: one after an upstream answer with another
\* identifier, the other after a refusal.
C8_Witness ==
    \E i \in Handlers, j \in Handlers :
        /\ Done(i)
        /\ h[i].nExchange = 1
        /\ ~h[i].ures.err
        /\ h[i].ures.id # h[i].uquery.id
        /\ Len(h[i].ures.answer) >= 1
        /\ Done(j)
        /\ h[j].nExchange = 0
        /\ Len(h[j].r.question) = 0

\* The exchange of handler i returned a message with the identifier of the
\* upstream query.
ExchangeSucceeded(i) ==
    /\ Done(i)
    /\ h[i].nExchange = 1
    /\ ~h[i].ures.err
    /\ h[i].ures.id = h[i].uquery.id

\* C12: when the exchange returns a message with the upstream query's
\* identifier and at least one answer, the client gets one reply to its own
\* query whose answer section is the upstream one: the same records in the
\* same order.
C12_RelayVerbatim ==
    \A i \in Handlers :
        (ExchangeSucceeded(i) /\ Len(h[i].ures.answer) >= 1)
            => /\ Len(h[i].out) = 1
               /\ h[i].out[1].id = h[i].r.id
               /\ h[i].out[1].question = << h[i].r.question[1] >>
               /\ h[i].out[1].rcode = RcodeSuccess
               /\ h[i].out[1].answer = h[i].ures.answer

\* An upstream answer of two records was relayed.
C12_Witness ==
    \E i \in Handlers :
        /\ ExchangeSucceeded(i)
        /\ Len(h[i].ures.answer) = 2
        /\ Len(h[i].out[1].answer) = 2

\* C13: when the exchange returns a message with the upstream query's
\* identifier and no answer, the client gets NAME ERROR, whatever response
\* code the upstream message carries.
C13_EmptyAnswerNameError ==
    \A i \in Handlers :
        (ExchangeSucceeded(i) /\ Len(h[i].ures.answer) = 0)
            => /\ Len(h[i].out) = 1
               /\ h[i].out[1].rcode = RcodeNameError
               /\ h[i].out[1].answer = <<>>

\* An upstream message with no answer and the code SERVER FAILURE was
\* answered with NAME ERROR.
C13_Witness ==
    \E i \in Handlers :
        /\ ExchangeSucceeded(i)
        /\ Len(h[i].ures.answer) = 0
        /\ h[i].ures.rcode = RcodeServerFailure
        /\ h[i].out[1].rcode = RcodeNameError

\* The query of handler i is refused before the blocklist is asked: its
\* request ID could not be generated, it has no question, or its class or
\* type is not served.
IsRefused(i) ==
    \/ h[i].idFail
    \/ Len(h[i].r.question) = 0
    \/ h[i].r.question[1].qclass # ClassINET
    \/ h[i].r.question[1].qtype \notin { TypeA, TypeAAAA }

\* The query of handler i is refused or its name is blocked.
RefusedOrBlocked(i) ==
    \/ IsRefused(i)
    \/ BlocklistContains(exact, root, Fqdn(h[i].r.question[1].name))

\* What a handler has done upstream when it has returned.
CallCounts ==
    \A i \in Handlers :
        /\ Done(i) /\ RefusedOrBlocked(i) => h[i].nNext = 0 /\ h[i].nExchange = 0
        /\ Done(i) /\ ~RefusedOrBlocked(i) => h[i].nNext = 1 /\ h[i].nExchange = 1
        /\ h[i].pc = "exchange" => h[i].nNext = 1 /\ h[i].nExchange = 1

\* A step moves the cursor only when a handler takes a query it forwards,
\* and then by one place; the return of the exchange, whatever it is, moves
\* nothing and calls nothing again.
CursorSteps ==
    phase = "serving" =>
        /\ idx' # idx =>
              /\ idx' = (idx + 1) % Len(list)
              /\ \E i \in Handlers : h[i].pc = "idle" /\ h'[i].pc = "exchange"
        /\ \A i \in Handlers :
              h[i].pc = "exchange" =>
                  /\ h'[i].nNext = h[i].nNext
                  /\ h'[i].nExchange = h[i].nExchange
                  /\ h'[i].nameserver = h[i].nameserver
                  /\ (h'[i].pc = "done" => idx' = idx)

\* C15: per query, the selector is advanced and the upstream is called not
\* at all when the query is refused or blocked, and exactly once otherwise,
\* also when the exchange fails, the identifier differs or the answer is
\* empty: nothing is retried and the cursor is never moved back.
C15_UpstreamCallCounts ==
    /\ []CallCounts
    /\ [][CursorSteps]_vars

\* One handler has returned after a failed exchange and the other after a
\* blocked query, and the cursor has moved once.
C15_Witness ==
    \E i \in Handlers, j \in Handlers :
        /\ Done(i) /\ h[i].nExchange = 1 /\ h[i].ures.err
        /\ Done(j) /\ ~IsRefused(j) /\ h[j].nExchange = 0
        /\ idx = 1

\* Two handlers that have returned from queries for the same name both
\* found it blocked or both found it not blocked.
SameAnswerForSameName ==
    \A i \in Handlers, j \in Handlers :
        (/\ Done(i) /\ ~IsRefused(i)
         /\ Done(j) /\ ~IsRefused(j)
         /\ Fqdn(h[i].r.question[1].name) = Fqdn(h[j].r.question[1].name))
            => (h[i].nExchange = 0) = (h[j].nExchange = 0)

\* C18: handling a query never changes the Blocklist: once main serves, no
\* step changes the exact set or the trie, whatever the lookups find, so
\* every handler gets the same answer for the same name.
C18_BlocklistReadOnly ==
    /\ [][phase = "serving" => exact' = exact /\ root' = root]_vars
    /\ []SameAnswerForSameName

\* With the blocklist loaded, one handler has returned from a lookup that
\* took the `*` of the previous node, and the other from a lookup that
\* missed.
C18_Witness ==
    \E i \in Handlers, j \in Handlers :
        /\ Append(<< Lc, Ld, Star >>, Bang) \in root
        /\ Done(i) /\ ~IsRefused(i)
        /\ h[i].r.question[1].name = JoinLabels(<< Lx, Lb, Ld, Lc >>)
        /\ h[i].nExchange = 0
        /\ Done(j) /\ ~IsRefused(j)
        /\ h[j].r.question[1].name = JoinDot(<< Ld, Lc >>)
        /\ h[j].nExchange = 1

\* -------------------------------------------------- blocklist claims

\* Line k of the lines read was inserted without error: it is a domain name
\* and, if it goes to the trie, a pattern the trie accepts.
InsertedOk(line) ==
    /\ IsDomainName(line)
    /\ StrContains(line, "*") =>
          /\ ~StrContains(line, "!")
          /\ Len(NameLabels(line)) >= 2

\* The patterns inserted without error so far, as a set.
Accepted(lines) ==
    { CanonicalName(lines[k]) : k \in { j \in 1..Len(lines) : InsertedOk(lines[j]) } }

\* Some order of the elements of a set.
RECURSIVE SetToSeq(_)
SetToSeq(S) ==
    IF S = {} THEN <<>>
    ELSE LET x == CHOOSE y \in S : TRUE
         IN  << x >> \o SetToSeq(S \ { x })

\* The names Blocklist.Contains is compared on.
BlocklistNames ==
    QueryNames \cup { JoinDot(<< La, Ld, Lc >>), JoinDot(<< Lx, Ly, Ld, Lc >>),
                      JoinDot(<< Ld, Lc >>), JoinDot(<< Lx, La, Ld, Lc >>),
                      << "A", ".", "d", ".", "C", "." >> }

\* The Blocklist being loaded answers Contains as the Blocklist loaded from
\* the set of its accepted patterns, each once, in one fixed order.
AnswersAsItsSet ==
    LET bl == Load(SetToSeq(Accepted(loadst.lines)))
    IN  \A n \in BlocklistNames :
            BlocklistContains(exact, root, n) = BlocklistContains(bl.exact, bl.glob, n)

\* A step that inserts a pattern already present returns no error and
\* leaves Contains as it was for every name.
ReinsertKeepsAnswers ==
    (/\ Len(loadst'.lines) = Len(loadst.lines) + 1
     /\ InsertedOk(loadst'.lines[Len(loadst'.lines)])
     /\ CanonicalName(loadst'.lines[Len(loadst'.lines)]) \in Accepted(loadst.lines))
        => /\ loadst'.cnt = loadst.cnt + 1
           /\ \A n \in BlocklistNames :
                 BlocklistContains(exact', root', n) = BlocklistContains(exact, root, n)

\* C11: the answers of Contains depend only on the set of patterns inserted
\* without error, not on their order or on how often each was inserted: the
\* Blocklist answers as the one built from that set in a fixed order, and
\* inserting a pattern that is present returns no error and changes no answer.
C11_OrderAndMultiplicity ==
    /\ []AnswersAsItsSet
    /\ [][ReinsertKeepsAnswers]_vars

\* Two wildcard patterns were loaded, the longer one first, and then the
\* shorter one again in another spelling; all three were counted.
C11_Witness ==
    /\ loadst.lines = << JoinLabels(<< Lx, Star, Ld, Lc >>), JoinLabels(<< Star, Ld, Lc >>),
                         << "*", ".", "D", ".", "c", "." >> >>
    /\ loadst.cnt = 3

\* Line k of the lines read is in the Blocklist if it was inserted without
\* error: in the exact set, or as a path of the trie ending in `!`.
LineIsLoaded(line) ==
    IF StrContains(line, "*")
    THEN Append(Reverse(NameLabels(line)), Bang) \in root
    ELSE CanonicalName(line) \in exact

\* C19: Load returns an error only when reading the source fails, never
\* because of what a line holds: a line that is no domain name or that Insert
\* refuses is skipped and the lines after it are still loaded, the count is
\* the number of lines inserted without error, and what was built before a
\* read error is returned with it.
C19_LoadErrorsOnlyOnReadFailure ==
    /\ (loadst.pc = "returned" /\ loadst.err # NoErr) => loadst.err = ReadErr
    /\ loadst.cnt = Cardinality({ k \in 1..Len(loadst.lines) : InsertedOk(loadst.lines[k]) })
    /\ \A k \in 1..Len(loadst.lines) :
          InsertedOk(loadst.lines[k]) => LineIsLoaded(loadst.lines[k])
    /\ exact = { CanonicalName(loadst.lines[k]) :
                   k \in { j \in 1..Len(loadst.lines) :
                             InsertedOk(loadst.lines[j]) /\ ~StrContains(loadst.lines[j], "*") } }

\* C19 for every source but one with a line too long for the scanner.
C19_ExceptTooLong ==
    /\ loadst.err \in { NoErr, ReadErr, ErrTooLong }
    /\ exact = { CanonicalName(loadst.lines[k]) :
                   k \in { j \in 1..Len(loadst.lines) :
                             InsertedOk(loadst.lines[j]) /\ ~StrContains(loadst.lines[j], "*") } }
    /\ loadst.cnt = Cardinality({ k \in 1..Len(loadst.lines) : InsertedOk(loadst.lines[k]) })
    /\ \A k \in 1..Len(loadst.lines) :
          InsertedOk(loadst.lines[k]) => LineIsLoaded(loadst.lines[k])

====
